---- MODULE Spec2Model ----
(***************************************************************************)
(* nom-sql: the arithmetic-expression grammar (src/src/arithmetic.rs) and  *)
(* the compound-select grammar (src/src/compound_select.rs).               *)
(*                                                                         *)
(* Input is a sequence of bytes, each written as a one-character string.   *)
(* The lexemes of the collaborators this code only calls (a single SELECT  *)
(* statement, an ORDER BY clause, a LIMIT clause) are opaque: each is one  *)
(* element of the sequence.  A parser maps an input to an IResult: Done    *)
(* with the remaining input and a value, Error (no match), or Incomplete   *)
(* (the input ended before the parser could decide).                       *)
(***************************************************************************)
EXTENDS Integers, Sequences, FiniteSets, TLC

VARIABLES pc, api, form, expr, input, res

vars == <<pc, api, form, expr, input, res>>

(***************************************************************************)
(* Bounds of the model.                                                    *)
(***************************************************************************)
\* the longest run of whitespace put between two lexemes
MaxSpaces == 1
\* scalar operands of constructed expressions range over 0..MaxScalar
MaxScalar == 11
\* the largest number of selects in a generated compound statement
MaxSelects == 3

(***************************************************************************)
(* Values.                                                                 *)
(***************************************************************************)
None == [tag |-> "None"]
Some(v) == [tag |-> "Some", val |-> v]

Done(rest, out) == [kind |-> "Done", rest |-> rest, out |-> out]
Error == [kind |-> "Error"]
Incomplete == [kind |-> "Incomplete"]

Drop(i, n) == SubSeq(i, n + 1, Len(i))
Take(i, n) == SubSeq(i, 1, n)
MinOf(a, b) == IF a < b THEN a ELSE b

\* K applied to the value of v, v being computed once
With(v, K(_)) == CHOOSE y \in {K(x) : x \in {v}} : TRUE

(***************************************************************************)
(* The parser combinators the two grammars are written with.               *)
(***************************************************************************)
\* tag!: the input must start with the bytes t; an input that ends inside t
\* without contradicting it is Incomplete
tag(t, i) ==
    LET m == MinOf(Len(i), Len(t)) IN
    IF Take(i, m) # Take(t, m) THEN Error
    ELSE IF m < Len(t) THEN Incomplete
    ELSE Done(Drop(i, Len(t)), t)

UpperCase == <<"A", "C", "D", "E", "I", "L", "N", "O", "P", "R", "S", "T", "U", "X">>
LowerCase == <<"a", "c", "d", "e", "i", "l", "n", "o", "p", "r", "s", "t", "u", "x">>

ToLower(c) ==
    IF \E k \in 1..Len(UpperCase) : UpperCase[k] = c
    THEN LowerCase[CHOOSE k \in 1..Len(UpperCase) : UpperCase[k] = c]
    ELSE c

LowerAll(s) == [k \in 1..Len(s) |-> ToLower(s[k])]

\* tag_no_case!: as tag!, comparing letters without regard to case
tag_no_case(t, i) ==
    LET m == MinOf(Len(i), Len(t)) IN
    IF LowerAll(Take(i, m)) # LowerAll(Take(t, m)) THEN Error
    ELSE IF m < Len(t) THEN Incomplete
    ELSE Done(Drop(i, Len(t)), Take(i, Len(t)))

\* complete! left out: the child's result as it is
complete_left_out(r) == r

\* complete!: an Incomplete child is an Error
complete(r) == IF r.kind = "Incomplete" THEN Error ELSE r

\* opt!: Some on a match, None on an Error; an Incomplete child stays
\* Incomplete.  r is the child's result on the input i.
opt(r, i) ==
    IF r.kind = "Done" THEN Done(r.rest, Some(r.out))
    ELSE IF r.kind = "Error" THEN Done(i, None)
    ELSE r

\* map!: apply f to the value of a match
map(r, v) == IF r.kind = "Done" THEN Done(r.rest, v) ELSE r

\* one step of do_parse!: the rest K of the sequence runs on a match of the
\* step; an Error or Incomplete step is the result of the whole sequence
then(r, K(_)) == With(r, LAMBDA x : IF x.kind = "Done" THEN K(x) ELSE x)

WhiteSpace == {" ", "\t", "\r", "\n"}

RECURSIVE LeadingIn(_, _)
\* the length of the longest prefix of i made of elements of S
LeadingIn(S, i) ==
    IF i = <<>> \/ Head(i) \notin S THEN 0 ELSE 1 + LeadingIn(S, Tail(i))

\* nom::multispace: one or more spaces, tabs, carriage returns, line feeds
multispace(i) ==
    IF Len(i) = 0 THEN Incomplete
    ELSE LET n == LeadingIn(WhiteSpace, i) IN
         IF n = 0 THEN Error ELSE Done(Drop(i, n), Take(i, n))

\* common::opt_multispace: zero or more whitespace, never fails
opt_multispace(i) == opt(complete(multispace(i)), i)

\* alt_complete!: the first alternative that matches; an Error or Incomplete
\* alternative passes to the next, and no match at all is an Error
alt_complete(rs) ==
    With(rs, LAMBDA alts :
        LET hits == {k \in 1..Len(alts) : alts[k].kind = "Done"} IN
        IF hits = {} THEN Error
        ELSE alts[CHOOSE k \in hits : \A j \in hits : k <= j])

(***************************************************************************)
(* arithmetic.rs: the data model.                                          *)
(***************************************************************************)
ArithmeticOperator == {"Add", "Subtract", "Multiply", "Divide"}

Scalar(lit) == [tag |-> "Scalar", lit |-> lit]
Column(name) == [tag |-> "Column", name |-> name, table |-> None, function |-> None]

\* ArithmeticExpression::new
new(op, left, right) == [op |-> op, left |-> left, right |-> right]

(***************************************************************************)
(* Collaborators of arithmetic.rs: integer literals and column names, as   *)
(* text and as values.                                                     *)
(***************************************************************************)
DigitChars == <<"0", "1", "2", "3", "4", "5", "6", "7", "8", "9">>
Digits == {DigitChars[k] : k \in 1..Len(DigitChars)}
DigitValue(c) == (CHOOSE k \in 1..Len(DigitChars) : DigitChars[k] = c) - 1

RECURSIVE DecimalValue(_)
DecimalValue(s) ==
    IF s = <<>> THEN 0
    ELSE 10 * DecimalValue(Take(s, Len(s) - 1)) + DigitValue(s[Len(s)])

\* common::integer_literal: a run of decimal digits is an integer Literal
integer_literal(i) ==
    LET n == LeadingIn(Digits, i) IN
    IF n = 0 THEN Error ELSE Done(Drop(i, n), DecimalValue(Take(i, n)))

RECURSIVE LiteralToString(_)
\* Literal::to_string of an integer: its decimal digits
LiteralToString(n) ==
    IF n < 10 THEN <<DigitChars[n + 1]>>
    ELSE LiteralToString(n \div 10) \o <<DigitChars[(n % 10) + 1]>>

IdentChars ==
    {UpperCase[k] : k \in 1..Len(UpperCase)} \cup {LowerCase[k] : k \in 1..Len(LowerCase)}
        \cup {"b", "f", "_"} \cup Digits

\* common::column_identifier_no_alias: a bare column name (letters, digits
\* and underscores) is a Column without table or function
column_identifier_no_alias(i) ==
    LET n == LeadingIn(IdentChars, i) IN
    IF n = 0 THEN Error ELSE Done(Drop(i, n), Column(Take(i, n)))

\* Display for Column: the column's name
ColumnToString(col) == col.name

(***************************************************************************)
(* arithmetic.rs: rendering.                                               *)
(***************************************************************************)
\* Divide written with the symbol of Multiply
FmtOperator_divide_as_multiply(op) ==
    CASE op = "Add" -> <<"+">>
      [] op = "Subtract" -> <<"-">>
      [] op = "Multiply" -> <<"*">>
      [] op = "Divide" -> <<"*">>

\* impl fmt::Display for ArithmeticOperator
FmtOperator(op) ==
    CASE op = "Add" -> <<"+">>
      [] op = "Subtract" -> <<"-">>
      [] op = "Multiply" -> <<"*">>
      [] op = "Divide" -> <<"/">>

\* impl fmt::Display for ArithmeticBase
FmtBase(b) ==
    IF b.tag = "Column" THEN ColumnToString(b) ELSE LiteralToString(b.lit)

\* impl fmt::Display for ArithmeticExpression: "{} {} {}"
FmtExpression(e) ==
    FmtBase(e.left) \o <<" ">> \o FmtOperator(e.op) \o <<" ">> \o FmtBase(e.right)

(***************************************************************************)
(* arithmetic.rs: parsing.                                                 *)
(***************************************************************************)
arithmetic_operator(i) ==
    alt_complete(<<map(tag(<<"+">>, i), "Add"),
                   map(tag(<<"-">>, i), "Subtract"),
                   map(tag(<<"*">>, i), "Multiply"),
                   map(tag(<<"/">>, i), "Divide")>>)

arithmetic_base(i) ==
    alt_complete(<<then(integer_literal(i), LAMBDA il : Done(il.rest, Scalar(il.out))),
                   then(column_identifier_no_alias(i), LAMBDA ci : Done(ci.rest, ci.out))>>)

\* no whitespace allowed between the left operand and the operator
arithmetic_expression_no_space_before_op(i) ==
    complete(
        then(arithmetic_base(i), LAMBDA left :
        then(arithmetic_operator(left.rest), LAMBDA op :
        then(opt_multispace(op.rest), LAMBDA s2 :
        then(arithmetic_base(s2.rest), LAMBDA right :
            Done(right.rest, [op |-> op.out, left |-> left.out, right |-> right.out]))))))

\* the triple must be the whole input
arithmetic_expression_whole_input(i) ==
    complete(
        then(arithmetic_base(i), LAMBDA left :
        then(opt_multispace(left.rest), LAMBDA s1 :
        then(arithmetic_operator(s1.rest), LAMBDA op :
        then(opt_multispace(op.rest), LAMBDA s2 :
        then(arithmetic_base(s2.rest), LAMBDA right :
            IF right.rest # <<>> THEN Error ELSE
            Done(right.rest, [op |-> op.out, left |-> left.out, right |-> right.out])))))))

\* do_parse!(left >> opt_multispace >> op >> opt_multispace >> right),
\* under complete!
arithmetic_expression(i) ==
    complete(
        then(arithmetic_base(i), LAMBDA left :
        then(opt_multispace(left.rest), LAMBDA s1 :
        then(arithmetic_operator(s1.rest), LAMBDA op :
        then(opt_multispace(op.rest), LAMBDA s2 :
        then(arithmetic_base(s2.rest), LAMBDA right :
            Done(right.rest, [op |-> op.out, left |-> left.out, right |-> right.out])))))))

(***************************************************************************)
(* compound_select.rs: the data model and its collaborators.               *)
(***************************************************************************)
CompoundSelectOperator == {"Union", "DistinctUnion", "Intersect", "Except"}

\* the text of the k-th single SELECT statement, one opaque lexeme
SelectNames == <<"SELECT 1", "SELECT 2", "SELECT 3", "SELECT 4", "SELECT 5", "SELECT 6">>
SelectText(k) == SelectNames[k]
SelectLexemes == {SelectNames[k] : k \in 1..Len(SelectNames)}
OrderText == "ORDER BY"
LimitText == "LIMIT"

\* select::nested_selection: one complete single SELECT statement
nested_selection(i) ==
    IF i # <<>> /\ Head(i) \in SelectLexemes
    THEN Done(Tail(i), [tag |-> "SelectStatement", text |-> Head(i)])
    ELSE Error

\* select::order_clause: optional whitespace and an ORDER BY clause
order_clause(i) ==
    LET r == Drop(i, LeadingIn(WhiteSpace, i)) IN
    IF r # <<>> /\ Head(r) = OrderText
    THEN Done(Tail(r), [tag |-> "OrderClause", text |-> Head(r)])
    ELSE Error

\* select::limit_clause: optional whitespace and a LIMIT clause
limit_clause(i) ==
    LET r == Drop(i, LeadingIn(WhiteSpace, i)) IN
    IF r # <<>> /\ Head(r) = LimitText
    THEN Done(Tail(r), [tag |-> "LimitClause", text |-> Head(r)])
    ELSE Error

(***************************************************************************)
(* compound_select.rs: parsing.                                            *)
(***************************************************************************)
\* the qualifier of UNION: preceded!(multispace, alt_complete!(all | distinct))
union_qualifier(i) ==
    then(multispace(i), LAMBDA sp :
        alt_complete(<<map(tag_no_case(<<"a", "l", "l">>, sp.rest), FALSE),
                       map(tag_no_case(<<"d", "i", "s", "t", "i", "n", "c", "t">>, sp.rest),
                           TRUE)>>))

\* the first alternative of compound_op: UNION and its optional qualifier
union_op(i) ==
    then(tag_no_case(<<"u", "n", "i", "o", "n">>, i), LAMBDA kw :
    then(opt(union_qualifier(kw.rest), kw.rest), LAMBDA distinct :
        Done(distinct.rest,
             IF distinct.out.tag = "None" THEN "DistinctUnion"
             ELSE IF distinct.out.val THEN "DistinctUnion" ELSE "Union")))

compound_op(i) ==
    alt_complete(<<union_op(i),
                   map(tag_no_case(<<"i", "n", "t", "e", "r", "s", "e", "c", "t">>, i),
                       "Intersect"),
                   map(tag_no_case(<<"e", "x", "c", "e", "p", "t">>, i), "Except")>>)

\* delimited!(opt!(tag!("(")), nested_selection, opt!(tag!(")")))
first_select(i) ==
    then(opt(tag(<<"(">>, i), i), LAMBDA open :
    then(nested_selection(open.rest), LAMBDA select :
    then(opt(tag(<<")">>, select.rest), select.rest), LAMBDA close :
        Done(close.rest, select.out))))

\* one repetition of other_selects: an operator and the select after it
other_select(i) ==
    complete(
        then(opt_multispace(i), LAMBDA s0 :
        then(compound_op(s0.rest), LAMBDA op :
        then(multispace(op.rest), LAMBDA s1 :
        then(opt(tag(<<"(">>, s1.rest), s1.rest), LAMBDA open :
        then(opt_multispace(open.rest), LAMBDA s2 :
        then(nested_selection(s2.rest), LAMBDA select :
        then(opt_multispace(select.rest), LAMBDA s3 :
        then(opt(tag(<<")">>, s3.rest), s3.rest), LAMBDA close :
            Done(close.rest, <<Some(op.out), select.out>>))))))))))

RECURSIVE many_more(_, _)
\* the loop of many1!: repeat while the child matches and consumes input
many_more(i, acc) ==
    IF Len(i) = 0 THEN Done(i, acc)
    ELSE With(other_select(i), LAMBDA r :
             IF r.kind = "Error" THEN Done(i, acc)
             ELSE IF r.kind = "Incomplete" THEN r
             ELSE IF Len(r.rest) = Len(i) THEN Done(i, acc)
             ELSE many_more(r.rest, Append(acc, r.out)))

\* many0! in the place of many1!: no repetition is a match too
other_selects_many0(i) ==
    With(other_select(i), LAMBDA r :
        IF r.kind # "Done" THEN Done(i, <<>>) ELSE many_more(r.rest, <<r.out>>))

\* many1!(complete!(...)): at least one repetition
other_selects(i) ==
    then(other_select(i), LAMBDA r : many_more(r.rest, <<r.out>>))

\* the first select pushed after the other selects
compound_selection_first_last(i) ==
    complete(
        then(first_select(i), LAMBDA first :
        then(other_selects(first.rest), LAMBDA others :
        then(opt_multispace(others.rest), LAMBDA s :
        then(opt(order_clause(s.rest), s.rest), LAMBDA order :
        then(opt(limit_clause(order.rest), order.rest), LAMBDA limit :
            Done(limit.rest,
                 [selects |-> others.out \o <<(<<None, first.out>>)>>,
                  order |-> order.out,
                  limit |-> limit.out])))))))

\* the LIMIT clause looked for before the ORDER BY clause
compound_selection_limit_first(i) ==
    complete(
        then(first_select(i), LAMBDA first :
        then(other_selects(first.rest), LAMBDA others :
        then(opt_multispace(others.rest), LAMBDA s :
        then(opt(limit_clause(s.rest), s.rest), LAMBDA limit :
        then(opt(order_clause(limit.rest), limit.rest), LAMBDA order :
            Done(order.rest,
                 [selects |-> <<(<<None, first.out>>)>> \o others.out,
                  order |-> order.out,
                  limit |-> limit.out])))))))

compound_selection(i) ==
    complete(
        then(first_select(i), LAMBDA first :
        then(other_selects(first.rest), LAMBDA others :
        then(opt_multispace(others.rest), LAMBDA s :
        then(opt(order_clause(s.rest), s.rest), LAMBDA order :
        then(opt(limit_clause(order.rest), order.rest), LAMBDA limit :
            Done(limit.rest,
                 [selects |-> <<(<<None, first.out>>)>> \o others.out,
                  order |-> order.out,
                  limit |-> limit.out])))))))

(***************************************************************************)
(* The callers: the texts handed to the parsers.                           *)
(***************************************************************************)
WsSample == {" ", "\t"}
\* the runs of whitespace of length 0..MaxSpaces
WsRuns == UNION {[1..n -> WsSample] : n \in 0..MaxSpaces}
Gaps == WsRuns \ {<<>>}

ColumnNames == {<<"f", "o", "o">>, <<"b", "a", "r">>}
Operands == {Scalar(n) : n \in 0..MaxScalar} \cup {Column(c) : c \in ColumnNames}
OperandSamples == {Scalar(5), Scalar(42)} \cup {Column(c) : c \in ColumnNames}

\* an arithmetic text: left, operator and right, any of which may be
\* left out (shape), with whitespace s1 and s2 around the operator; a
\* chain goes on with a second operator and a third operand
ArithmeticForms ==
    [kind : {"arithmetic"}, shape : {"triple"},
     left : OperandSamples, op : ArithmeticOperator, right : OperandSamples,
     s1 : WsRuns, s2 : WsRuns, trail : {<<>>, <<";">>},
     op2 : {"Add"}, third : {Scalar(0)}]
    \cup
    {f \in [kind : {"arithmetic"}, shape : {"no_left", "no_op", "no_right"},
            left : OperandSamples, op : ArithmeticOperator, right : OperandSamples,
            s1 : WsRuns, s2 : WsRuns, trail : {<<>>, <<";">>},
            op2 : {"Add"}, third : {Scalar(0)}] : f.s1 = f.s2}
    \cup
    {f \in [kind : {"arithmetic"}, shape : {"chain"},
            left : {Scalar(5), Column(<<"f", "o", "o">>)}, op : ArithmeticOperator,
            right : {Scalar(42), Column(<<"b", "a", "r">>)},
            s1 : WsRuns, s2 : WsRuns, trail : {<<>>},
            op2 : ArithmeticOperator, third : {Scalar(7), Column(<<"f", "o", "o">>)}] :
        f.s1 = f.s2}

ArithmeticText(f) ==
    (IF f.shape = "no_left" THEN <<>> ELSE FmtBase(f.left))
    \o f.s1
    \o (IF f.shape = "no_op" THEN <<>> ELSE FmtOperator(f.op))
    \o f.s2
    \o (IF f.shape = "no_right" THEN <<>> ELSE FmtBase(f.right))
    \o (IF f.shape = "chain"
        THEN f.s1 \o FmtOperator(f.op2) \o f.s2 \o FmtBase(f.third)
        ELSE <<>>)
    \o f.trail

ToUpper(c) ==
    IF \E k \in 1..Len(LowerCase) : LowerCase[k] = c
    THEN UpperCase[CHOOSE k \in 1..Len(LowerCase) : LowerCase[k] = c]
    ELSE c

\* a keyword as a caller may spell it: lower case, upper case, or mixed
Spell(word, case) ==
    [k \in 1..Len(word) |->
        IF case = "upper" \/ (case = "mixed" /\ k % 2 = 1) THEN ToUpper(word[k])
        ELSE word[k]]

KeywordText(w) ==
    CASE w = "union" -> <<"u", "n", "i", "o", "n">>
      [] w = "intersect" -> <<"i", "n", "t", "e", "r", "s", "e", "c", "t">>
      [] w = "except" -> <<"e", "x", "c", "e", "p", "t">>
      [] w = "all" -> <<"a", "l", "l">>
      [] w = "distinct" -> <<"d", "i", "s", "t", "i", "n", "c", "t">>

\* a compound operator as written: the keyword, the qualifier of UNION
\* ("none" when there is none) and the spelling
OperatorForms ==
    {o \in [word : {"union", "intersect", "except"},
            qual : {"none", "all", "distinct"},
            case : {"lower", "upper", "mixed"}] :
        o.qual # "none" => o.word = "union"}

OperatorSamples ==
    {[word |-> "union", qual |-> "none", case |-> "lower"],
     [word |-> "union", qual |-> "all", case |-> "upper"],
     [word |-> "union", qual |-> "distinct", case |-> "mixed"],
     [word |-> "intersect", qual |-> "none", case |-> "lower"],
     [word |-> "except", qual |-> "none", case |-> "upper"]}

OperatorText(o, gap) ==
    Spell(KeywordText(o.word), o.case)
    \o (IF o.qual = "none" THEN <<>> ELSE gap \o Spell(KeywordText(o.qual), o.case))

\* how a select is parenthesized
Styles == {"none", "both", "open", "close"}

SelectInParens(k, style) ==
    (IF style \in {"both", "open"} THEN <<"(">> ELSE <<>>)
    \o <<SelectText(k)>>
    \o (IF style \in {"both", "close"} THEN <<")">> ELSE <<>>)

\* the operators a statement of several selects uses when only its
\* parentheses vary
DefaultOperator(k) ==
    IF k % 3 = 1 THEN [word |-> "union", qual |-> "none", case |-> "lower"]
    ELSE IF k % 3 = 2 THEN [word |-> "union", qual |-> "all", case |-> "upper"]
    ELSE [word |-> "intersect", qual |-> "none", case |-> "mixed"]

\* a compound text: n selects, the k-th parenthesized as styles[k] and
\* preceded (k > 1) by ops[k - 1]; gap is the whitespace between lexemes;
\* then an optional ORDER BY, an optional LIMIT and the terminator.  drop
\* leaves out a mandatory part: the first select, or the whitespace after
\* each operator.  cut >= 0 keeps only the first cut bytes of the text.
CompoundForms ==
    UNION {[kind : {"compound"}, n : {n}, styles : {[k \in 1..n |-> "none"]},
            ops : [1..(n - 1) -> OperatorSamples], gap : Gaps,
            order : {FALSE}, limit : {FALSE}, term : {<<>>, <<";">>},
            drop : {"none"}, cut : {-1}]
           : n \in 1..MaxSelects}
    \cup
    UNION {[kind : {"compound"}, n : {n}, styles : [1..n -> Styles],
            ops : {[k \in 1..(n - 1) |-> DefaultOperator(k)]}, gap : {<<" ">>},
            order : BOOLEAN, limit : BOOLEAN, term : {<<>>, <<";">>},
            drop : {"none"}, cut : {-1}]
           : n \in 1..MaxSelects}
    \cup
    [kind : {"compound"}, n : {2},
     styles : {[k \in 1..2 |-> "none"], [k \in 1..2 |-> "both"]},
     ops : [1..1 -> OperatorSamples], gap : {<<" ">>},
     order : {FALSE}, limit : {FALSE}, term : {<<";">>},
     drop : {"none"}, cut : 0..12]
    \cup
    [kind : {"compound"}, n : {2},
     styles : {[k \in 1..2 |-> "none"], [k \in 1..2 |-> "both"]},
     ops : [1..1 -> OperatorSamples], gap : {<<" ">>},
     order : BOOLEAN, limit : {FALSE}, term : {<<>>, <<";">>},
     drop : {"first", "space"}, cut : {-1}]

RECURSIVE LaterSelects(_, _)
LaterSelects(f, k) ==
    IF k > f.n THEN <<>>
    ELSE f.gap \o OperatorText(f.ops[k - 1], f.gap)
         \o (IF f.drop = "space" THEN <<>> ELSE f.gap)
         \o SelectInParens(k, f.styles[k]) \o LaterSelects(f, k + 1)

CompoundWhole(f) ==
    (IF f.drop = "first" THEN <<>> ELSE SelectInParens(1, f.styles[1]))
    \o LaterSelects(f, 2)
    \o (IF f.order THEN <<" ", OrderText>> ELSE <<>>)
    \o (IF f.limit THEN <<" ", LimitText>> ELSE <<>>)
    \o f.term

CompoundText(f) ==
    IF f.cut < 0 THEN CompoundWhole(f)
    ELSE Take(CompoundWhole(f), MinOf(f.cut, Len(CompoundWhole(f))))

\* texts that are no compound operator
OtherTexts ==
    {<<>>, <<";">>, <<" ">>, <<"(">>, <<SelectText(1)>>,
     <<" ", "u", "n", "i", "o", "n">>, <<"u", "n", "i", "o">>, <<"U">>,
     <<"a", "l", "l">>, <<"D", "I", "S", "T", "I", "N", "C", "T">>,
     <<"i", "n", "t", "e", "r", "s", "e", "c">>,
     <<"E", "X", "C", "E", "P">>, <<"u", "n", "i", "o", "m">>}

\* the text at a compound operator: the operator as written and what
\* follows it, or a text that is no operator (word "other")
OperatorInputs ==
    {[kind |-> "operator", op |-> o, gap |-> g, tail |-> t] :
        o \in OperatorForms, g \in Gaps,
        t \in {<<>>, <<";">>, <<" ", SelectText(2)>>, <<" ", "a", "l">>, <<"(", SelectText(2)>>}}
    \cup
    {[kind |-> "operator", op |-> [word |-> "other", qual |-> "none", case |-> "lower"],
      gap |-> <<>>, tail |-> t] : t \in OtherTexts}

OperatorInputText(f) ==
    (IF f.op.word = "other" THEN <<>> ELSE OperatorText(f.op, f.gap)) \o f.tail


NoForm == [kind |-> "none"]
NoResult == [kind |-> "None"]

Init ==
    /\ pc = "idle"
    /\ api = "none"
    /\ form = NoForm
    /\ expr = None
    /\ input = <<>>
    /\ res = NoResult

\* ArithmeticExpression::new(op, left, right)
New(op, left, right) ==
    /\ pc = "idle"
    /\ expr' = Some(new(op, left, right))
    /\ pc' = "built"
    /\ UNCHANGED <<api, form, input, res>>

\* format!("{}", e)
Display ==
    /\ pc = "built"
    /\ input' = FmtExpression(expr.val)
    /\ form' = [kind |-> "rendered"]
    /\ api' = "arithmetic_expression"
    /\ pc' = "ready"
    /\ UNCHANGED <<expr, res>>

\* a caller writes an arithmetic text
WriteArithmetic(f) ==
    /\ pc = "idle"
    /\ form' = f
    /\ input' = ArithmeticText(f)
    /\ api' = "arithmetic_expression"
    /\ pc' = "ready"
    /\ UNCHANGED <<expr, res>>

\* arithmetic_expression(input)
ParseArithmetic ==
    /\ pc = "ready"
    /\ api = "arithmetic_expression"
    /\ res' = arithmetic_expression(input)
    /\ pc' = "parsed"
    /\ UNCHANGED <<api, form, expr, input>>

\* a caller writes a compound statement
WriteCompound(f) ==
    /\ pc = "idle"
    /\ form' = f
    /\ input' = CompoundText(f)
    /\ api' = "compound_selection"
    /\ pc' = "ready"
    /\ UNCHANGED <<expr, res>>

\* compound_selection(input)
ParseCompound ==
    /\ pc = "ready"
    /\ api = "compound_selection"
    /\ res' = compound_selection(input)
    /\ pc' = "parsed"
    /\ UNCHANGED <<api, form, expr, input>>

\* the input is at the place of a compound operator
WriteOperator(f) ==
    /\ pc = "idle"
    /\ form' = f
    /\ input' = OperatorInputText(f)
    /\ api' = "compound_op"
    /\ pc' = "ready"
    /\ UNCHANGED <<expr, res>>

\* compound_op(input)
ParseOperator ==
    /\ pc = "ready"
    /\ api = "compound_op"
    /\ res' = compound_op(input)
    /\ pc' = "parsed"
    /\ UNCHANGED <<api, form, expr, input>>

Next ==
    \/ \E op \in ArithmeticOperator, left \in Operands, right \in Operands :
           New(op, left, right)
    \/ Display
    \/ \E f \in ArithmeticForms : WriteArithmetic(f)
    \/ ParseArithmetic
    \/ \E f \in CompoundForms : WriteCompound(f)
    \/ ParseCompound
    \/ \E f \in OperatorInputs : WriteOperator(f)
    \/ ParseOperator

Spec == Init /\ [][Next]_vars

(***************************************************************************)
(* What the texts written by the callers stand for.                        *)
(***************************************************************************)
Parsed(a) == pc = "parsed" /\ api = a

\* the operator a written compound operator stands for
OperatorOf(o) ==
    CASE o.word = "union" /\ o.qual = "all" -> "Union"
      [] o.word = "union" /\ o.qual # "all" -> "DistinctUnion"
      [] o.word = "intersect" -> "Intersect"
      [] o.word = "except" -> "Except"

SelectOf(k) == [tag |-> "SelectStatement", text |-> SelectText(k)]

\* the statement a written compound text stands for
StatementOf(f) ==
    [selects |-> [k \in 1..f.n |->
                     <<IF k = 1 THEN None ELSE Some(OperatorOf(f.ops[k - 1])), SelectOf(k)>>],
     order |-> IF f.order THEN Some([tag |-> "OrderClause", text |-> OrderText]) ELSE None,
     limit |-> IF f.limit THEN Some([tag |-> "LimitClause", text |-> LimitText]) ELSE None]

\* a compound text with nothing left out
WholeCompound == form.kind = "compound" /\ form.cut < 0 /\ form.drop = "none"

(***************************************************************************)
(* Properties.                                                             *)
(***************************************************************************)

CompoundOpMapping ==
    Parsed("compound_op") =>
        IF form.op.word = "other" THEN res.kind = "Error"
        ELSE res.kind = "Done" /\ res.out = OperatorOf(form.op)

\* C3: a statement returned by compound_selection has at least two pairs,
\* the first without operator and every later one with an operator, and
\* the k-th pair holds the k-th select of the input with the operator
\* written before it.
SelectsShape ==
    Parsed("compound_selection") /\ res.kind = "Done" =>
        /\ Len(res.out.selects) >= 2
        /\ Len(res.out.selects) <= form.n
        /\ res.out.selects[1][1] = None
        /\ \A k \in 2..Len(res.out.selects) : res.out.selects[k][1].tag = "Some"
        /\ \A k \in 1..Len(res.out.selects) :
               res.out.selects[k] = StatementOf(form).selects[k]
        /\ (WholeCompound /\ form.term = <<";">> => Len(res.out.selects) = form.n)

SelectsShapeWitness ==
    /\ Parsed("compound_selection") /\ res.kind = "Done"
    /\ Len(res.out.selects) = 3
    /\ res.out.selects[2][1] = Some("DistinctUnion")
    /\ res.out.selects[3][1] = Some("Union")

\* C4: compound_selection gives no match on a single select that no
\* compound operator and second select follow.
SingleSelectRejected ==
    Parsed("compound_selection") /\ WholeCompound /\ form.n = 1 => res.kind = "Error"

SingleSelectRejectedWitness ==
    /\ Parsed("compound_selection") /\ WholeCompound /\ form.n = 1
    /\ form.styles[1] = "none" /\ ~form.order /\ ~form.limit /\ form.term = <<";">>
    /\ res.kind = "Error"

\* C5: the text with every select in one balanced pair of parentheses and
\* the text without parentheses both match, with the same statement.
ParenthesizedEquivalence ==
    /\ Parsed("compound_selection") /\ WholeCompound /\ form.n >= 2
    /\ \/ \A k \in 1..form.n : form.styles[k] = "none"
       \/ \A k \in 1..form.n : form.styles[k] = "both"
    => res.kind = "Done" /\ res.out = StatementOf(form)

ChainRejected ==
    Parsed("arithmetic_expression") /\ form.kind = "arithmetic" /\ form.shape = "chain" =>
        res.kind # "Done"

\* C7, amended: on a text with more than one operator arithmetic_expression
\* matches the leading operand, operator and operand only, and leaves the
\* text from the whitespace before the second operator on unconsumed.
ChainPrefixOnly ==
    Parsed("arithmetic_expression") /\ form.kind = "arithmetic" /\ form.shape = "chain" =>
        /\ res.kind = "Done"
        /\ res.out = new(form.op, form.left, form.right)
        /\ res.rest = form.s1 \o FmtOperator(form.op2) \o form.s2 \o FmtBase(form.third)

ChainPrefixOnlyWitness ==
    /\ Parsed("arithmetic_expression") /\ form.kind = "arithmetic" /\ form.shape = "chain"
    /\ form.op = "Add" /\ form.op2 = "Multiply" /\ form.s1 # <<>>
    /\ res.kind = "Done" /\ res.rest # <<>>

MatchOrNoMatch ==
    /\ Parsed("arithmetic_expression") \/ Parsed("compound_selection") =>
           res.kind \in {"Done", "Error"}
    /\ Parsed("arithmetic_expression") /\ form.kind = "arithmetic"
           /\ form.shape \in {"no_left", "no_op", "no_right"} => res.kind = "Error"
    /\ Parsed("compound_selection")
           /\ (form.drop # "none" \/ \A k \in 1..Len(input) : input[k] # SelectText(2))
           => res.kind = "Error"

MatchOrNoMatchWitness ==
    /\ Parsed("compound_selection")
    /\ form.cut = 4 /\ form.styles[1] = "none"
    /\ res.kind = "Error"

\* C10: an opening parenthesis without a closing one, or a closing one
\* without an opening one, around the first or a later select is accepted,
\* and the statement is the one of the text without parentheses.
UnbalancedTolerated ==
    /\ Parsed("compound_selection") /\ WholeCompound /\ form.n >= 2
    /\ \E k \in 1..form.n : form.styles[k] \in {"open", "close"}
    => res.kind = "Done" /\ res.out = StatementOf(form)

====
